---- MODULE Spec2Model ----
(***************************************************************************)
(* Font Enumerator (src/src/main.rs): the session state AppState, the      *)
(* three enumeration adapters (GDI, DirectWrite, FontSet), the filter      *)
(* engine and the window procedure's handlers, as one state machine.       *)
(*                                                                         *)
(* A string is a sequence of one-character strings, so that lowercasing,   *)
(* substring search, ordinal comparison, NUL trimming, number parsing and  *)
(* number formatting are computed character by character. Vec indices are  *)
(* 0-based as in the source: index k of a Vec is element k + 1 of the      *)
(* sequence that models it.                                                *)
(***************************************************************************)
EXTENDS Integers, Sequences, FiniteSets, TLC

VARIABLES
    fonts,              \* AppState.fonts: Vec<FontInfo>
    filtered_indices,   \* AppState.filtered_indices: Vec<usize>
    filter_text,        \* AppState.filter_text
    current_mode,       \* AppState.current_mode: EnumMode
    selected_font,      \* AppState.selected_font
    list_view,          \* rows of the SysListView32 control
    status_label,       \* text of the status STATIC control
    preview,            \* font and text of the preview EDIT control
    message_box,        \* TRUE iff the last handler showed the error MessageBoxW
    last_event,         \* the message the window procedure handled last, with its
                        \* inputs, and whether it repeats the trigger before it
    call_stack,         \* the activations of wnd_proc on the UI thread, innermost
                        \* last: the message of each and the calls it has yet to make
    borrow_state,       \* APP_STATE's RefCell: n > 0 shared borrows live, -1 a
                        \* mutable borrow live, 0 none
    borrow_panic        \* TRUE once borrow() or borrow_mut() has panicked

vars ==
    <<fonts, filtered_indices, filter_text, current_mode, selected_font,
      list_view, status_label, preview, message_box, last_event,
      call_stack, borrow_state, borrow_panic>>

\* The session and the controls, and the RefCell with the activations on it.
session_vars ==
    <<fonts, filtered_indices, filter_text, current_mode, selected_font,
      list_view, status_label, preview, message_box, last_event>>
refcell_vars == <<call_stack, borrow_state, borrow_panic>>

-----------------------------------------------------------------------------
(* Bounds of the model *)

\* Longest sequence of face callbacks one EnumFontFamiliesExW call delivers.
MaxGdiFaces == 2
\* Largest family count of the DirectWrite system font collection.
MaxFamilies == 2
\* Largest font count of the system font set.
MaxSetFonts == 2
\* Most rows populate_list_view inserts when the borrows of a handler are
\* followed call by call.
MaxRows == 2

-----------------------------------------------------------------------------
(* Strings *)

\* U+0000, the padding of the fixed UTF-16 buffers the OS fills.
NUL == "NUL"

Min(a, b) == IF a < b THEN a ELSE b

Chars ==
    {NUL, " ", "+", ",", "-", "0", "1", "2", "3", "4", "5", "6", "7", "8", "9",
     ":", "A", "B", "D", "E", "F", "G", "I", "N", "S", "W", "Y", "a", "b", "c",
     "d", "e", "f", "g", "h", "i", "l", "m", "n", "o", "p", "r", "s", "t", "u",
     "w", "x"}

\* Code points of the characters of the model (all ASCII, one UTF-8 byte
\* each, so String::cmp compares these).
CharCodes ==
    [c \in Chars |->
        CASE c = NUL -> 0
          [] c = " " -> 32 [] c = "+" -> 43 [] c = "," -> 44 [] c = "-" -> 45
          [] c = "0" -> 48 [] c = "1" -> 49 [] c = "2" -> 50 [] c = "3" -> 51
          [] c = "4" -> 52 [] c = "5" -> 53 [] c = "6" -> 54 [] c = "7" -> 55
          [] c = "8" -> 56 [] c = "9" -> 57 [] c = ":" -> 58
          [] c = "A" -> 65 [] c = "B" -> 66 [] c = "D" -> 68 [] c = "E" -> 69
          [] c = "F" -> 70 [] c = "G" -> 71 [] c = "I" -> 73 [] c = "N" -> 78
          [] c = "S" -> 83 [] c = "W" -> 87 [] c = "Y" -> 89
          [] c = "a" -> 97 [] c = "b" -> 98 [] c = "c" -> 99 [] c = "d" -> 100
          [] c = "e" -> 101 [] c = "f" -> 102 [] c = "g" -> 103 [] c = "h" -> 104
          [] c = "i" -> 105 [] c = "l" -> 108 [] c = "m" -> 109 [] c = "n" -> 110
          [] c = "o" -> 111 [] c = "p" -> 112 [] c = "r" -> 114 [] c = "s" -> 115
          [] c = "t" -> 116 [] c = "u" -> 117 [] c = "w" -> 119 [] c = "x" -> 120]

CharCode(c) == CharCodes[c]

CodeChars ==
    [b \in {CharCodes[c] : c \in Chars} |-> CHOOSE c \in Chars : CharCodes[c] = b]

\* `b as u8 as char`: the character with code point b.
CharOf(b) == CodeChars[b]

\* char::to_lowercase on an ASCII character.
LowerChar(c) ==
    IF CharCode(c) >= 65 /\ CharCode(c) <= 90 THEN CharOf(CharCode(c) + 32) ELSE c

\* str::to_lowercase
to_lowercase(s) == [i \in 1..Len(s) |-> LowerChar(s[i])]

\* str::contains(&str): some window of hay equals needle.
contains(hay, needle) ==
    \E start \in 0..(Len(hay) - Len(needle)) :
        SubSeq(hay, start + 1, start + Len(needle)) = needle

\* str::trim_end_matches('\0')
trim_end_matches_nul(s) ==
    LET keep == {i \in 1..Len(s) : s[i] # NUL}
        last == IF keep = {} THEN 0 ELSE CHOOSE i \in keep : \A j \in keep : j <= i
    IN  SubSeq(s, 1, last)

\* String::cmp is Less: bytewise lexicographic order.
RECURSIVE StrLess(_, _)
StrLess(a, b) ==
    IF b = <<>> THEN FALSE
    ELSE IF a = <<>> THEN TRUE
    ELSE IF CharCode(Head(a)) # CharCode(Head(b))
         THEN CharCode(Head(a)) < CharCode(Head(b))
    ELSE StrLess(Tail(a), Tail(b))

\* i32::to_string / format!("{}", i32)
RECURSIVE NatToString(_)
NatToString(n) ==
    IF n < 10 THEN <<CharOf(48 + n)>>
    ELSE NatToString(n \div 10) \o <<CharOf(48 + (n % 10))>>

IntToString(n) == IF n < 0 THEN <<"-">> \o NatToString(0 - n) ELSE NatToString(n)

-----------------------------------------------------------------------------
(* Data structures *)

\* FontInfo::default()
FontInfoDefault ==
    [family_name |-> <<>>, style_name |-> <<>>, file_path |-> <<>>,
     variable_axes |-> <<>>, weight |-> 0, italic |-> FALSE,
     fixed_pitch |-> FALSE, is_variable |-> FALSE]

EnumMode == {"None", "Gdi", "DirectWrite", "FontSet"}

\* Vec::get(i) on an index that came from an i32: Some(v[i]) or None. A
\* negative i32 cast to usize is above every Vec length.
VecHas(v, i) == i >= 0 /\ i < Len(v)

\* |a, b| a.family_name.cmp(&b.family_name)
by_family(a, b) == StrLess(a.family_name, b.family_name)

\* by_family_then_style without the .then(..): the family name alone.
by_family_only(a, b) == StrLess(a.family_name, b.family_name)

\* |a, b| a.family_name.cmp(&b.family_name).then(a.style_name.cmp(&b.style_name))
by_family_then_style(a, b) ==
    \/ StrLess(a.family_name, b.family_name)
    \/ (a.family_name = b.family_name /\ StrLess(a.style_name, b.style_name))

\* The comparator closure a sort_by call is given, by name.
cmp_less(order, a, b) ==
    IF order = "family" THEN by_family(a, b) ELSE by_family_then_style(a, b)

\* The result of Vec::sort_by, a stable sort: element i goes after every
\* element that is less than it and after every equal element that precedes it.
sort_by(s, order) ==
    LET rank(i) ==
            Cardinality({j \in 1..Len(s) :
                \/ cmp_less(order, s[j], s[i])
                \/ (~cmp_less(order, s[i], s[j]) /\ j < i)}) + 1
    IN  [r \in 1..Len(s) |-> s[CHOOSE i \in 1..Len(s) : rank(i) = r]]

-----------------------------------------------------------------------------
(* Filtering and display *)

\* filter_matches comparing the names as stored, without lowercasing them.
filter_matches_case_sensitive(f, filter_lower) ==
    \/ filter_lower = <<>>
    \/ contains(f.family_name, filter_lower)
    \/ contains(f.style_name, filter_lower)

\* The closure of apply_filter's filter(): does record f pass the lowercased filter?
filter_matches(f, filter_lower) ==
    \/ filter_lower = <<>>
    \/ contains(to_lowercase(f.family_name), filter_lower)
    \/ contains(to_lowercase(f.style_name), filter_lower)

\* filter_indices collecting the matching indices from the last record to
\* the first.
filter_indices_reversed(fs, ft) ==
    LET filter_lower == to_lowercase(ft)
    IN  SelectSeq([k \in 1..Len(fs) |-> Len(fs) - k],
                  LAMBDA i : filter_matches(fs[i + 1], filter_lower))

\* apply_filter's `indices`: enumerate().filter(..).map(|(i, _)| i).collect()
filter_indices(fs, ft) ==
    LET filter_lower == to_lowercase(ft)
    IN  SelectSeq([k \in 1..Len(fs) |-> k - 1],
                  LAMBDA i : filter_matches(fs[i + 1], filter_lower))

TextYes ==
    <<"Y", "e", "s">>
TextNo ==
    <<"N", "o">>
TextYesColon ==
    <<"Y", "e", "s", ":", " ">>

\* One row of the table: the item inserted at iItem = i with lParam = font_idx
\* and its six subitem texts.
list_view_row(font, font_idx) ==
    [lParam |-> font_idx,
     text |-> <<font.family_name,
                font.style_name,
                IntToString(font.weight),
                IF font.italic THEN TextYes ELSE TextNo,
                IF font.fixed_pitch THEN TextYes ELSE TextNo,
                font.file_path,
                IF font.is_variable THEN TextYesColon \o font.variable_axes ELSE <<>> >>]

\* populate_list_view inserting a row for every record of fonts.
populate_list_view_unfiltered(fs, indices) ==
    [i \in 1..Len(fs) |-> list_view_row(fs[i], i - 1)]

\* populate_list_view: LVM_DELETEALLITEMS, then one LVM_INSERTITEMW per entry
\* of filtered_indices, in order.
populate_list_view(fs, indices) ==
    [i \in 1..Len(indices) |-> list_view_row(fs[indices[i] + 1], indices[i])]

TextGdi ==
    <<"G", "D", "I">>
TextDirectWrite ==
    <<"D", "i", "r", "e", "c", "t", "W", "r", "i", "t", "e">>
TextFontSet ==
    <<"F", "o", "n", "t", "S", "e", "t">>
TextEnumerationFound ==
    <<" ", "E", "n", "u", "m", "e", "r", "a", "t", "i", "o", "n", ":", " ",
      "F", "o", "u", "n", "d", " ">>
TextEnumerationShowing ==
    <<" ", "E", "n", "u", "m", "e", "r", "a", "t", "i", "o", "n", ":", " ",
      "S", "h", "o", "w", "i", "n", "g", " ">>
TextOf ==
    <<" ", "o", "f", " ">>
TextFonts ==
    <<" ", "f", "o", "n", "t", "s">>

mode_str(mode) ==
    CASE mode = "Gdi" -> TextGdi
      [] mode = "DirectWrite" -> TextDirectWrite
      [] mode = "FontSet" -> TextFontSet
      [] mode = "None" -> TextNo

\* update_status_text writing the "Found" form whatever the filter is.
update_status_text_found_only(mode, ft, fs, indices) ==
    mode_str(mode) \o TextEnumerationFound \o IntToString(Len(fs)) \o TextFonts

\* update_status_text: the text set on the status label.
update_status_text(mode, ft, fs, indices) ==
    IF ft = <<>>
    THEN mode_str(mode) \o TextEnumerationFound \o IntToString(Len(fs)) \o TextFonts
    ELSE mode_str(mode) \o TextEnumerationShowing \o IntToString(Len(indices))
             \o TextOf \o IntToString(Len(fs)) \o TextFonts

\* apply_filter on the session (fs, ft, mode): recompute filtered_indices,
\* repopulate the table, rewrite the status. InvalidateRect only repaints the
\* preview control: its font and text stay.
apply_filter(fs, ft, mode) ==
    LET indices == filter_indices(fs, ft)
    IN  /\ filtered_indices' = indices
        /\ list_view' = populate_list_view(fs, indices)
        /\ status_label' = update_status_text(mode, ft, fs, indices)
        /\ preview' = preview

-----------------------------------------------------------------------------
(* Window procedure: the message being handled *)

\* The message the window procedure is handling: the control or notification
\* it comes from (kind), what the OS and the user supply to the handler
\* (input), and whether it is a button click that repeats the click handled
\* just before it, with the same answers from the OS (again).
wnd_proc_message(kind, input) ==
    [kind |-> kind, input |-> input,
     again |-> /\ kind \in {"IDC_GDI_BUTTON", "IDC_DWRITE_BUTTON", "IDC_FONTSET_BUTTON"}
               /\ last_event.kind = kind
               /\ last_event.input = input]

-----------------------------------------------------------------------------
(* Window procedure: WM_COMMAND from the filter edit control *)

\* let mut buffer = [0u16; 256]
SearchBufferLen == 256

\* GetWindowTextW into a zeroed buffer of n UTF-16 units: at most n - 1
\* characters are copied, the rest of the buffer stays NUL.
GetWindowTextW(text, n) ==
    [i \in 1..n |-> IF i <= Min(Len(text), n - 1) THEN text[i] ELSE NUL]

\* Texts the user leaves in the filter edit control.
EditTexts == {<<>>, <<"B">>, <<"a", "b">>}

\* wm_command_search_edit clearing selected_font as the adapters do.
wm_command_search_edit_clears_selection(text) ==
    LET filter == trim_end_matches_nul(GetWindowTextW(text, SearchBufferLen))
    IN  /\ filter_text' = filter
        /\ apply_filter(fonts, filter, current_mode)
        /\ UNCHANGED <<fonts, current_mode>>
        /\ selected_font' = <<>>
        /\ message_box' = FALSE
        /\ last_event' = wnd_proc_message("EN_CHANGE", text)

\* IDC_SEARCH_EDIT with EN_CHANGE: read the edit text, store it, apply_filter().
wm_command_search_edit(text) ==
    LET filter == trim_end_matches_nul(GetWindowTextW(text, SearchBufferLen))
    IN  /\ filter_text' = filter
        /\ apply_filter(fonts, filter, current_mode)
        /\ UNCHANGED <<fonts, current_mode, selected_font>>
        /\ message_box' = FALSE
        /\ last_event' = wnd_proc_message("EN_CHANGE", text)

-----------------------------------------------------------------------------
(* Window procedure: WM_NOTIFY / LVN_ITEMCHANGED from the list view *)

\* The texts create_controls gives the status label and the preview control;
\* the preview control starts with the system font.
StatusInitialText ==
    <<"C", "l", "i", "c", "k", " ", "a", " ", "b", "u", "t", "t", "o", "n",
      " ", "t", "o", " ", "e", "n", "u", "m", "e", "r", "a", "t", "e", " ",
      "f", "o", "n", "t", "s">>
PreviewInitialFont ==
    [face |-> <<"S", "y", "s", "t", "e", "m">>, weight |-> 400, italic |-> 0]
PreviewInitialText ==
    <<"S", "e", "l", "e", "c", "t", " ", "a", " ", "f", "o", "n", "t", " ",
      "t", "o", " ", "p", "r", "e", "v", "i", "e", "w">>
PreviewSampleText ==
    <<"\r", "\n", "\r", "\n", "A", "a", "B", "b", "C", "c", "D", "d", "E",
      "e", "F", "f", "G", "g", "H", "h", "I", "i", "J", "j", "K", "k", "\r",
      "\n", "\r", "\n", "0", "1", "2", "3", "4", "5", "6", "7", "8", "9",
      " ", "!", "@", "#", "$", "%">>

\* The closure over APP_STATE at the head of the handler: the tuple
\* (preview_hwnd, font_name, font_weight, font_italic, style_name).
selection_lookup(iItem) ==
    IF VecHas(filtered_indices, iItem) /\ filtered_indices[iItem + 1] < Len(fonts)
    THEN LET font == fonts[filtered_indices[iItem + 1] + 1]
         IN  [preview_hwnd |-> "preview_static", font_name |-> font.family_name,
              font_weight |-> font.weight, font_italic |-> font.italic,
              style_name |-> font.style_name, found |-> TRUE]
    ELSE [preview_hwnd |-> "null", font_name |-> <<>>, font_weight |-> 400,
          font_italic |-> FALSE, style_name |-> <<>>, found |-> FALSE]

\* CreateFontW, WM_SETFONT and SetWindowTextW on the preview control.
preview_of(r) ==
    [font |-> [face |-> r.font_name, weight |-> r.font_weight,
               italic |-> IF r.font_italic THEN 1 ELSE 0],
     text |-> r.font_name \o <<" ">> \o r.style_name \o PreviewSampleText]

\* wm_notify_item_changed storing the looked-up name before testing whether
\* the lookup found a record.
wm_notify_item_changed_clears(iItem, selected) ==
    LET r == selection_lookup(iItem)
    IN  /\ selected_font' = IF selected THEN r.font_name ELSE selected_font
        /\ preview' =
               IF selected /\ r.preview_hwnd # "null" /\ r.font_name # <<>>
               THEN preview_of(r)
               ELSE preview
        /\ UNCHANGED <<fonts, filtered_indices, filter_text, current_mode,
                       list_view, status_label>>
        /\ message_box' = FALSE
        /\ last_event' =
               wnd_proc_message("LVN_ITEMCHANGED", <<iItem, selected>>)

\* LVN_ITEMCHANGED for row iItem; selected is (uNewState & LVIS_SELECTED) != 0.
wm_notify_item_changed(iItem, selected) ==
    LET r == selection_lookup(iItem)
    IN  /\ selected_font' =
               IF selected /\ r.found THEN r.font_name ELSE selected_font
        /\ preview' =
               IF selected /\ r.preview_hwnd # "null" /\ r.font_name # <<>>
               THEN preview_of(r)
               ELSE preview
        /\ UNCHANGED <<fonts, filtered_indices, filter_text, current_mode,
                       list_view, status_label>>
        /\ message_box' = FALSE
        /\ last_event' =
               wnd_proc_message("LVN_ITEMCHANGED", <<iItem, selected>>)

\* Row numbers a notification can carry: no row (-1), every row of the
\* table, and one past its end.
RowNumbers == -1..Len(filtered_indices)

-----------------------------------------------------------------------------
(* GDI adapter *)

LF_FACESIZE == 32

\* A fixed UTF-16 array of n units holding s, NUL padded.
Padded(s, n) == [i \in 1..n |-> IF i <= Len(s) THEN s[i] ELSE NUL]

\* One ENUMLOGFONTEXW as the OS passes it to the callback.
LogFont(face, style, weight, italic, pitch) ==
    [lfFaceName |-> Padded(face, LF_FACESIZE), elfStyle |-> Padded(style, LF_FACESIZE),
     lfWeight |-> weight, lfItalic |-> italic, lfPitchAndFamily |-> pitch]

\* Faces the OS reports: the same (face, style) pair under two character sets
\* with different attributes (fixed pitch upright 400, variable pitch italic
\* 700), and a second family that sorts after the first.
GdiFaceAnsi == LogFont(<<"A", "b">>, <<"B">>, 400, 0, 49)
GdiFaceSymbol == LogFont(<<"A", "b">>, <<"B">>, 700, 255, 34)
GdiFaceOther == LogFont(<<"b">>, <<>>, 400, 0, 2)

\* Orders in which the OS reports them.
GdiFaceOrders ==
    {<<GdiFaceAnsi, GdiFaceSymbol, GdiFaceOther, GdiFaceAnsi>>,
     <<GdiFaceSymbol, GdiFaceAnsi, GdiFaceOther, GdiFaceSymbol>>,
     <<GdiFaceOther, GdiFaceAnsi, GdiFaceOther, GdiFaceSymbol>>,
     <<GdiFaceOther, GdiFaceSymbol, GdiFaceAnsi, GdiFaceOther>>}

\* The sequences of S cut to at most n elements.
Prefixes(S, n) == {SubSeq(s, 1, Min(k, Len(s))) : s \in S, k \in 0..n}

\* What one EnumFontFamiliesExW call does: the callbacks it makes and its
\* return value (0 when the enumeration failed, e.g. GetDC returned no DC).
GdiSources ==
    [faces : Prefixes(GdiFaceOrders, MaxGdiFaces), ret : {0, 1}]

\* enum_font_proc without the `exists` test: every reported face is pushed.
enum_font_proc_no_dedup(acc, lf) ==
    Append(acc, [FontInfoDefault EXCEPT
                    !.family_name = trim_end_matches_nul(lf.lfFaceName),
                    !.style_name = trim_end_matches_nul(lf.elfStyle),
                    !.weight = lf.lfWeight,
                    !.italic = (lf.lfItalic # 0),
                    !.fixed_pitch = ((lf.lfPitchAndFamily % 4) = 1)])

\* enum_font_proc on the Vec behind lparam.
enum_font_proc(acc, lf) ==
    LET family_name == trim_end_matches_nul(lf.lfFaceName)
        style_name == trim_end_matches_nul(lf.elfStyle)
        exists == \E k \in 1..Len(acc) :
                      acc[k].family_name = family_name /\ acc[k].style_name = style_name
        is_fixed == (lf.lfPitchAndFamily % 4) = 1
    IN  IF ~exists
        THEN Append(acc, [FontInfoDefault EXCEPT
                             !.family_name = family_name,
                             !.style_name = style_name,
                             !.weight = lf.lfWeight,
                             !.italic = (lf.lfItalic # 0),
                             !.fixed_pitch = is_fixed])
        ELSE acc

\* EnumFontFamiliesExW: enum_font_proc once per face, in the OS's order.
RECURSIVE EnumFontFamiliesExW(_, _)
EnumFontFamiliesExW(acc, faces) ==
    IF faces = <<>> THEN acc
    ELSE EnumFontFamiliesExW(enum_font_proc(acc, Head(faces)), Tail(faces))

\* The local `fonts` of enumerate_gdi_fonts after the sort.
gdi_fonts(os) == sort_by(EnumFontFamiliesExW(<<>>, os.faces), "family")

\* commit_fonts pushing the new records after the ones fonts already holds.
commit_fonts_appends(new_fonts, mode) ==
    /\ fonts' = fonts \o new_fonts
    /\ current_mode' = mode
    /\ selected_font' = <<>>
    /\ filter_text' = filter_text
    /\ apply_filter(fonts \o new_fonts, filter_text, mode)

\* commit_fonts clearing filter_text along with selected_font.
commit_fonts_clears_filter(new_fonts, mode) ==
    /\ fonts' = new_fonts
    /\ current_mode' = mode
    /\ selected_font' = <<>>
    /\ filter_text' = <<>>
    /\ apply_filter(new_fonts, <<>>, mode)

\* commit_fonts without selected_font.clear().
commit_fonts_keeps_selection(new_fonts, mode) ==
    /\ fonts' = new_fonts
    /\ current_mode' = mode
    /\ selected_font' = selected_font
    /\ filter_text' = filter_text
    /\ apply_filter(new_fonts, filter_text, mode)

\* The state update every adapter ends with, then apply_filter().
commit_fonts(new_fonts, mode) ==
    /\ fonts' = new_fonts
    /\ current_mode' = mode
    /\ selected_font' = <<>>
    /\ filter_text' = filter_text
    /\ apply_filter(new_fonts, filter_text, mode)

\* IDC_GDI_BUTTON. The return value of EnumFontFamiliesExW is discarded.
enumerate_gdi_fonts(os) ==
    /\ commit_fonts(gdi_fonts(os), "Gdi")
    /\ message_box' = FALSE
    /\ last_event' = wnd_proc_message("IDC_GDI_BUTTON", os)

-----------------------------------------------------------------------------
(* DirectWrite string helpers *)

\* GetString into vec![0u16; length + 1], then from_utf16_lossy and
\* trim_end_matches('\0').
string_from_buffer(string) == trim_end_matches_nul(Padded(string, Len(string) + 1))

\* An IDWriteLocalizedStrings: one [locale, string, get_ok] per locale, get_ok
\* FALSE when GetStringLength or GetString fails for that entry.
LocalizedString(locale, string, get_ok) ==
    [locale |-> locale, string |-> string, get_ok |-> get_ok]

\* FindLocaleName(w!("en-us"), &mut index, &mut exists)
FindLocaleName(strings) ==
    LET hits == {k \in 1..Len(strings) : strings[k].locale = "en-us"}
    IN  IF hits = {} THEN [exists |-> FALSE, index |-> 0]
        ELSE [exists |-> TRUE,
              index |-> (CHOOSE k \in hits : \A j \in hits : k <= j) - 1]

\* get_string_from_localized: the "en-us" entry, else entry 0, else "".
get_string_from_localized(strings) ==
    LET found == FindLocaleName(strings)
        index == IF ~found.exists THEN 0 ELSE found.index
    IN  IF index < Len(strings) /\ strings[index + 1].get_ok
        THEN string_from_buffer(strings[index + 1].string)
        ELSE <<>>

\* get_family_names / get_face_names: names.ok is GetFamilyNames or
\* GetFaceNames succeeding.
get_names(names) ==
    IF names.ok THEN get_string_from_localized(names.strings) ELSE <<>>

\* get_string_from_string_list on an IDWriteStringList (a sequence of
\* [string, get_ok]) at a 0-based index.
get_string_from_string_list(strings, index) ==
    IF index < Len(strings) /\ strings[index + 1].get_ok
    THEN string_from_buffer(strings[index + 1].string)
    ELSE <<>>

-----------------------------------------------------------------------------
(* DirectWrite adapter *)

NamesEnUs(other, en) ==
    [ok |-> TRUE,
     strings |-> <<LocalizedString("de-de", other, TRUE),
                   LocalizedString("en-us", en, TRUE)>>]
NamesFirstOnly(first) ==
    [ok |-> TRUE, strings |-> <<LocalizedString("de-de", first, TRUE)>>]
NamesUnavailable == [ok |-> FALSE, strings |-> <<>>]

\* An IDWriteFont of a family: get_ok is GetFont succeeding, font1 what the
\* cast to IDWriteFont1 gives ("none" when the interface is missing).
DwFont(get_ok, names, weight, style, font1) ==
    [get_ok |-> get_ok, names |-> names, weight |-> weight, style |-> style,
     font1 |-> font1]

DwFontB == DwFont(TRUE, NamesEnUs(<<"b">>, <<"B">>), 400, 0, "none")
DwFontUnnamed == DwFont(TRUE, NamesUnavailable, 700, 2, "monospaced")
DwFontFailed == DwFont(FALSE, NamesUnavailable, 400, 0, "none")

\* An IDWriteFontFamily of the collection: get_ok is GetFontFamily succeeding.
DwFamily(get_ok, names, family_fonts) ==
    [get_ok |-> get_ok, names |-> names, fonts |-> family_fonts]

\* Families the system collection holds: one named by its "en-us" entry whose
\* fonts come out of style order, one named by its only (non-English) entry
\* with a font that cannot be read, one whose names cannot be read at all and
\* whose two faces have none either, one that GetFontFamily cannot return.
DwFamilyEnUs ==
    DwFamily(TRUE, NamesEnUs(<<"b">>, <<"A", "b">>), <<DwFontB, DwFontUnnamed>>)
DwFamilyFirstOnly == DwFamily(TRUE, NamesFirstOnly(<<"b">>), <<DwFontFailed, DwFontB>>)
DwFamilyUnnamed == DwFamily(TRUE, NamesUnavailable, <<DwFontUnnamed, DwFontUnnamed>>)
DwFamilyFailed == DwFamily(FALSE, NamesUnavailable, <<>>)

\* Orders in which the collection holds them.
DwFamilyOrders ==
    {<<DwFamilyFirstOnly, DwFamilyEnUs, DwFamilyUnnamed, DwFamilyFailed>>,
     <<DwFamilyEnUs, DwFamilyFailed, DwFamilyFirstOnly, DwFamilyUnnamed>>,
     <<DwFamilyUnnamed, DwFamilyFirstOnly, DwFamilyEnUs>>,
     <<DwFamilyFailed, DwFamilyEnUs, DwFamilyFirstOnly>>}

\* What the DirectWrite calls of one trigger return: factory is
\* DWriteCreateFactory succeeding; collection is "ok", "err"
\* (GetSystemFontCollection fails) or "none" (it leaves the out-parameter None).
DwSources ==
    {[factory |-> FALSE, collection |-> "ok", families |-> <<>>],
     [factory |-> TRUE, collection |-> "err", families |-> <<>>],
     [factory |-> TRUE, collection |-> "none", families |-> <<>>]}
    \cup [factory : {TRUE}, collection : {"ok"},
          families : Prefixes(DwFamilyOrders, MaxFamilies)]

\* The FontInfo pushed for font j of a family.
dwrite_font_info(family_name, font) ==
    [FontInfoDefault EXCEPT
        !.family_name = family_name,
        !.style_name = get_names(font.names),
        !.weight = font.weight,
        !.italic = (font.style # 0),
        !.fixed_pitch = (font.font1 = "monospaced")]

\* The inner loop: for j in 0..font_count, skipping fonts GetFont fails for.
RECURSIVE dwrite_family_fonts(_, _, _)
dwrite_family_fonts(acc, family_name, family_fonts) ==
    IF family_fonts = <<>> THEN acc
    ELSE dwrite_family_fonts(
             IF Head(family_fonts).get_ok
             THEN Append(acc, dwrite_font_info(family_name, Head(family_fonts)))
             ELSE acc,
             family_name, Tail(family_fonts))

\* The outer loop: for i in 0..family_count, skipping families GetFontFamily
\* fails for.
RECURSIVE dwrite_collection_fonts(_, _)
dwrite_collection_fonts(acc, families) ==
    IF families = <<>> THEN acc
    ELSE dwrite_collection_fonts(
             IF Head(families).get_ok
             THEN dwrite_family_fonts(acc, get_names(Head(families).names),
                                      Head(families).fonts)
             ELSE acc,
             Tail(families))

\* The local `fonts` of enumerate_directwrite_fonts after the sort.
directwrite_fonts(os) ==
    sort_by(dwrite_collection_fonts(<<>>, os.families), "family_then_style")

\* Does the trigger get past its three early returns?
directwrite_available(os) == os.factory /\ os.collection = "ok"

\* IDC_DWRITE_BUTTON. Each early return leaves everything as it is and shows
\* nothing.
enumerate_directwrite_fonts(os) ==
    /\ IF directwrite_available(os)
       THEN commit_fonts(directwrite_fonts(os), "DirectWrite")
       ELSE UNCHANGED <<fonts, filtered_indices, filter_text, current_mode,
                        selected_font, list_view, status_label, preview>>
    /\ message_box' = FALSE
    /\ last_event' = wnd_proc_message("IDC_DWRITE_BUTTON", os)

-----------------------------------------------------------------------------
(* FontSet adapter *)

\* str::parse::<i32>(): an optional sign, then one or more decimal digits.
\* (The digit strings of the model are short: no overflow.)
IsDigit(c) == CharCode(c) >= 48 /\ CharCode(c) <= 57

RECURSIVE DigitsValue(_)
DigitsValue(s) ==
    IF s = <<>> THEN 0
    ELSE 10 * DigitsValue(SubSeq(s, 1, Len(s) - 1)) + (CharCode(s[Len(s)]) - 48)

parse_i32(s) ==
    LET signed == s # <<>> /\ s[1] \in {"+", "-"}
        digits == IF signed THEN Tail(s) ELSE s
    IN  IF digits # <<>> /\ \A k \in 1..Len(digits) : IsDigit(digits[k])
        THEN [ok |-> TRUE,
              value |-> IF signed /\ s[1] = "-" THEN 0 - DigitsValue(digits)
                        ELSE DigitsValue(digits)]
        ELSE [ok |-> FALSE, value |-> 0]

\* Result::unwrap_or
unwrap_or(r, default) == IF r.ok THEN r.value ELSE default

\* An f32 is modelled as a whole number of halves: AxisValue(100, 1) is 100.5.
AxisUnit == 2
AxisValue(whole, halves) == whole * AxisUnit + halves

\* `f as i32`: truncation toward zero.
as_i32(f) == IF f >= 0 THEN f \div AxisUnit ELSE 0 - ((0 - f) \div AxisUnit)

\* DWRITE_MAKE_OPENTYPE_TAG(a, b, c, d)
MakeTag(a, b, c, d) ==
    CharCode(a) + 256 * CharCode(b) + 65536 * CharCode(c) + 16777216 * CharCode(d)

AxisRange(axisTag, minValue, maxValue) ==
    [axisTag |-> axisTag, minValue |-> minValue, maxValue |-> maxValue]

\* The four characters of an axis tag, low byte first.
tag_str(tag) ==
    <<CharOf(tag % 256), CharOf((tag \div 256) % 256),
      CharOf((tag \div 65536) % 256), CharOf((tag \div 16777216) % 256)>>

\* axis_loop writing a fragment for every reported axis, equal ends or not.
RECURSIVE axis_loop_keeps_degenerate(_, _)
axis_loop_keeps_degenerate(info, ranges) ==
    IF ranges = <<>> THEN info
    ELSE LET range == Head(ranges)
             separated == IF info.variable_axes # <<>>
                          THEN info.variable_axes \o <<",", " ">>
                          ELSE info.variable_axes
         IN  axis_loop_keeps_degenerate(
                 [info EXCEPT
                     !.is_variable = @ \/ range.minValue # range.maxValue,
                     !.variable_axes =
                         separated \o tag_str(range.axisTag) \o <<" ">>
                             \o IntToString(as_i32(range.minValue)) \o <<"-">>
                             \o IntToString(as_i32(range.maxValue))],
                 Tail(ranges))

\* axis_loop setting is_variable for every reported axis, and writing the
\* fragment only for an axis whose ends differ.
RECURSIVE axis_loop_flags_every_axis(_, _)
axis_loop_flags_every_axis(info, ranges) ==
    IF ranges = <<>> THEN info
    ELSE LET range == Head(ranges)
             separated == IF info.variable_axes # <<>>
                          THEN info.variable_axes \o <<",", " ">>
                          ELSE info.variable_axes
         IN  axis_loop_flags_every_axis(
                 IF range.minValue # range.maxValue
                 THEN [info EXCEPT
                          !.is_variable = TRUE,
                          !.variable_axes =
                              separated \o tag_str(range.axisTag) \o <<" ">>
                                  \o IntToString(as_i32(range.minValue)) \o <<"-">>
                                  \o IntToString(as_i32(range.maxValue))]
                 ELSE [info EXCEPT !.is_variable = TRUE],
                 Tail(ranges))

\* The loop over axis_ranges: is_variable and variable_axes after it.
RECURSIVE axis_loop(_, _)
axis_loop(info, ranges) ==
    IF ranges = <<>> THEN info
    ELSE LET range == Head(ranges)
             separated == IF info.variable_axes # <<>>
                          THEN info.variable_axes \o <<",", " ">>
                          ELSE info.variable_axes
         IN  axis_loop(
                 IF range.minValue # range.maxValue
                 THEN [info EXCEPT
                          !.is_variable = TRUE,
                          !.variable_axes =
                              separated \o tag_str(range.axisTag) \o <<" ">>
                                  \o IntToString(as_i32(range.minValue)) \o <<"-">>
                                  \o IntToString(as_i32(range.maxValue))]
                 ELSE info,
                 Tail(ranges))

\* An IDWriteFontFaceReference slot of the set. get_ok: GetFontFaceReference
\* succeeds. file_stage: the first call of the file path chain that fails
\* ("GetFontFile", "GetLoader", "cast" for a loader that is not a local file
\* loader, "GetReferenceKey", "GetFilePathLengthFromKey", "GetFilePathFromKey"),
\* or "ok". axis_stage: likewise for the axis chain ("CreateFontFace", "cast",
\* "GetFontResource", "GetFontAxisRanges"), or "ok".
FaceReference(get_ok, file_stage, path, axis_stage, ranges) ==
    [get_ok |-> get_ok, file_stage |-> file_stage, path |-> path,
     axis_stage |-> axis_stage, ranges |-> ranges]

\* A static local font (its one axis has equal ends), a variable font behind
\* a non-local loader (one axis with equal ends, one with a negative
\* fractional end), a slot that cannot be referenced.
FaceReferenceStatic ==
    FaceReference(TRUE, "ok", <<"p">>, "ok",
        <<AxisRange(MakeTag("w", "g", "h", "t"), AxisValue(400, 0), AxisValue(400, 0))>>)
FaceReferenceVariable ==
    FaceReference(TRUE, "cast", <<>>, "ok",
        <<AxisRange(MakeTag("w", "g", "h", "t"), AxisValue(100, 0), AxisValue(900, 0)),
          AxisRange(MakeTag("w", "d", "t", "h"), AxisValue(100, 0), AxisValue(100, 0)),
          AxisRange(MakeTag("s", "l", "n", "t"), 0 - AxisValue(12, 1), AxisValue(0, 0))>>)
FaceReferenceFailed == FaceReference(FALSE, "GetFontFile", <<>>, "CreateFontFace", <<>>)

\* Orders in which the set holds them.
FaceReferenceOrders ==
    {<<FaceReferenceStatic, FaceReferenceVariable, FaceReferenceFailed>>,
     <<FaceReferenceVariable, FaceReferenceStatic, FaceReferenceVariable>>,
     <<FaceReferenceFailed, FaceReferenceVariable, FaceReferenceStatic>>}

\* What GetPropertyValues(id) returns: ok FALSE for Err, else the string list.
PropertyValues(ok, strings) ==
    [ok |-> ok,
     values |-> [k \in 1..Len(strings) |-> [string |-> strings[k], get_ok |-> TRUE]]]

PropertySet(family, face, weight, style) ==
    [FAMILY_NAME |-> family, FACE_NAME |-> face, WEIGHT |-> weight, STYLE |-> style]

\* Property lists of the set: complete ones; ones with an empty family name,
\* no face names, no weights and a short, unparseable style list; and none.
PropertySetSamples ==
    {PropertySet(PropertyValues(TRUE, << <<"b">>, <<"A", "b">>, <<"A", "b">> >>),
                 PropertyValues(TRUE, << <<"B">>, <<"B">>, <<"B">> >>),
                 PropertyValues(TRUE, << <<"7", "0", "0">>, <<"x">>, <<"4", "0", "0">> >>),
                 PropertyValues(TRUE, << <<"2">>, <<"0">>, <<"1">> >>)),
     PropertySet(PropertyValues(TRUE, << <<>>, <<"A", "b">>, <<"A", "b">> >>),
                 PropertyValues(FALSE, <<>>),
                 PropertyValues(FALSE, <<>>),
                 PropertyValues(TRUE, << <<"x">> >>)),
     PropertySet(PropertyValues(FALSE, <<>>),
                 PropertyValues(TRUE, << <<"B">> >>),
                 PropertyValues(TRUE, << <<"4", "0", "0">> >>),
                 PropertyValues(TRUE, << <<"0">> >>))}

\* What the calls of one FontSet trigger return: factory is
\* DWriteCreateFactory::<IDWriteFactory3> succeeding, font_set is
\* GetSystemFontSet succeeding, refs has one slot per font of the set.
FontSetSources ==
    {[factory |-> FALSE, font_set |-> TRUE, refs |-> <<>>,
      props |-> CHOOSE ps \in PropertySetSamples : ~ps.FAMILY_NAME.ok],
     [factory |-> TRUE, font_set |-> FALSE, refs |-> <<>>,
      props |-> CHOOSE ps \in PropertySetSamples : ~ps.FAMILY_NAME.ok]}
    \cup [factory : {TRUE}, font_set : {TRUE},
          refs : Prefixes(FaceReferenceOrders, MaxSetFonts),
          props : PropertySetSamples]

\* info after the `if let Ok(font_ref)` block of slot i.
fontset_face_info(ref) ==
    IF ref.get_ok
    THEN LET with_path ==
                 IF ref.file_stage = "ok"
                 THEN [FontInfoDefault EXCEPT !.file_path = string_from_buffer(ref.path)]
                 ELSE FontInfoDefault
         IN  IF ref.axis_stage = "ok" /\ Len(ref.ranges) > 0
             THEN axis_loop(with_path, ref.ranges)
             ELSE with_path
    ELSE FontInfoDefault

\* info after the four property blocks of slot i (0-based).
fontset_property_info(info, props, i) ==
    LET family == props.FAMILY_NAME
        face == props.FACE_NAME
        weight == props.WEIGHT
        style == props.STYLE
    IN  [info EXCEPT
            !.family_name =
                IF family.ok /\ i < Len(family.values)
                THEN get_string_from_string_list(family.values, i) ELSE @,
            !.style_name =
                IF face.ok /\ i < Len(face.values)
                THEN get_string_from_string_list(face.values, i) ELSE @,
            !.weight =
                IF weight.ok /\ i < Len(weight.values)
                THEN unwrap_or(parse_i32(get_string_from_string_list(weight.values, i)), 400)
                ELSE @,
            !.italic =
                IF style.ok /\ i < Len(style.values)
                THEN unwrap_or(parse_i32(get_string_from_string_list(style.values, i)), 0) # 0
                ELSE @]

\* fontset_loop without the family_name.is_empty() test: every slot is pushed.
RECURSIVE fontset_loop_keeps_all(_, _, _)
fontset_loop_keeps_all(acc, os, i) ==
    IF i >= Len(os.refs) THEN acc
    ELSE fontset_loop_keeps_all(
             Append(acc, fontset_property_info(fontset_face_info(os.refs[i + 1]),
                                               os.props, i)),
             os, i + 1)

\* The loop for i in 0..font_count over the slots from i on.
RECURSIVE fontset_loop(_, _, _)
fontset_loop(acc, os, i) ==
    IF i >= Len(os.refs) THEN acc
    ELSE LET info == fontset_property_info(fontset_face_info(os.refs[i + 1]), os.props, i)
         IN  fontset_loop(IF info.family_name # <<>> THEN Append(acc, info) ELSE acc,
                          os, i + 1)

\* The local `fonts` of enumerate_fontset_fonts after the sort.
fontset_fonts(os) == sort_by(fontset_loop(<<>>, os, 0), "family_then_style")

fontset_available(os) == os.factory /\ os.font_set

\* IDC_FONTSET_BUTTON. Only the failure to create the factory shows the
\* error box; a failing GetSystemFontSet returns without one.
enumerate_fontset_fonts(os) ==
    /\ IF fontset_available(os)
       THEN commit_fonts(fontset_fonts(os), "FontSet")
       ELSE UNCHANGED <<fonts, filtered_indices, filter_text, current_mode,
                        selected_font, list_view, status_label, preview>>
    /\ message_box' = ~os.factory
    /\ last_event' = wnd_proc_message("IDC_FONTSET_BUTTON", os)

-----------------------------------------------------------------------------
(* The state machine *)

\* After WM_CREATE: AppState::default() and the controls as create_controls
\* leaves them.
Init ==
    /\ fonts = <<>>
    /\ filtered_indices = <<>>
    /\ filter_text = <<>>
    /\ current_mode = "None"
    /\ selected_font = <<>>
    /\ list_view = <<>>
    /\ status_label = StatusInitialText
    /\ preview = [font |-> PreviewInitialFont, text |-> PreviewInitialText]
    /\ message_box = FALSE
    /\ last_event = [kind |-> "WM_CREATE", input |-> <<>>, again |-> FALSE]
    /\ call_stack = <<>>
    /\ borrow_state = 0
    /\ borrow_panic = FALSE

\* The handlers as whole steps, from one return to the message loop to the
\* next: no activation is left and no borrow is live.
SearchEdit ==
    /\ \E text \in EditTexts : wm_command_search_edit(text)
    /\ UNCHANGED refcell_vars

ItemChanged ==
    /\ \E iItem \in RowNumbers, selected \in BOOLEAN :
           wm_notify_item_changed(iItem, selected)
    /\ UNCHANGED refcell_vars

GdiButton ==
    /\ \E os \in GdiSources : enumerate_gdi_fonts(os)
    /\ UNCHANGED refcell_vars

DirectWriteButton ==
    /\ \E os \in DwSources : enumerate_directwrite_fonts(os)
    /\ UNCHANGED refcell_vars

FontSetButton ==
    /\ \E os \in FontSetSources : enumerate_fontset_fonts(os)
    /\ UNCHANGED refcell_vars

Next ==
    \/ SearchEdit
    \/ ItemChanged
    \/ GdiButton
    \/ DirectWriteButton
    \/ FontSetButton

Spec == Init /\ [][Next]_vars

-----------------------------------------------------------------------------
(* The borrows of APP_STATE, call by call *)

(***************************************************************************)
(* Every handler is followed here through its borrows of the RefCell and   *)
(* through the OS calls during which the OS calls wnd_proc again on the    *)
(* same thread. A handler is the sequence of these calls: "borrow" and     *)
(* "borrow_mut" take a guard, "drop" and "drop_mut" end its scope, every   *)
(* other entry is the OS call of that name. What the session holds decides *)
(* only how many rows populate_list_view inserts and which early return an *)
(* adapter takes: both are inputs of the message.                          *)
(***************************************************************************)

\* A message to wnd_proc: msg, the control it comes from (LOWORD(wparam) or
\* nmhdr.idFrom), its notification code, and what the handler will find: the
\* rows to insert, the outcome of its OS mechanism or of its lookup, and
\* whether uNewState has LVIS_SELECTED.
Message(msg, from, code, rows, outcome, selected) ==
    [msg |-> msg, from |-> from, code |-> code, rows |-> rows,
     outcome |-> outcome, selected |-> selected]

\* A message whose arm reads none of the inputs.
PlainMessage(msg, from, code) == Message(msg, from, code, 0, "ok", FALSE)

\* populate_list_view's loop body, once per row: the item, then six subitems.
RECURSIVE populate_rows_calls(_)
populate_rows_calls(rows) ==
    IF rows = 0 THEN <<>>
    ELSE <<"LVM_INSERTITEMW", "LVM_SETITEMTEXTW", "LVM_SETITEMTEXTW",
           "LVM_SETITEMTEXTW", "LVM_SETITEMTEXTW", "LVM_SETITEMTEXTW",
           "LVM_SETITEMTEXTW">> \o populate_rows_calls(rows - 1)

\* populate_list_view: one shared borrow around every SendMessageW.
populate_list_view_calls(rows) ==
    <<"borrow", "LVM_DELETEALLITEMS">> \o populate_rows_calls(rows) \o <<"drop">>

update_status_text_calls == <<"borrow", "SetWindowTextW(status_label)", "drop">>

\* apply_filter: read the names, write filtered_indices, redraw.
apply_filter_calls(rows) ==
    <<"borrow", "drop", "borrow_mut", "drop_mut">>
        \o populate_list_view_calls(rows)
        \o update_status_text_calls
        \o <<"borrow", "InvalidateRect", "drop">>

enumerate_gdi_fonts_calls(m) ==
    <<"borrow", "GetDC", "EnumFontFamiliesExW", "ReleaseDC", "drop",
      "borrow_mut", "drop_mut">> \o apply_filter_calls(m.rows)

enumerate_directwrite_fonts_calls(m) ==
    IF m.outcome = "ok"
    THEN <<"borrow_mut", "drop_mut">> \o apply_filter_calls(m.rows)
    ELSE <<>>

\* The error box is shown inside the closure that borrows the state for hwnd.
enumerate_fontset_fonts_calls(m) ==
    IF m.outcome = "no_factory" THEN <<"borrow", "MessageBoxW", "drop">>
    ELSE IF m.outcome = "ok"
    THEN <<"borrow_mut", "drop_mut">> \o apply_filter_calls(m.rows)
    ELSE <<>>

resize_controls_calls ==
    <<"GetClientRect", "borrow", "MoveWindow", "MoveWindow", "drop">>

\* The WM_COMMAND arm: the three buttons whatever the notification code, the
\* filter edit on EN_CHANGE, nothing for any other control or code.
wm_command_calls(m) ==
    CASE m.from = "IDC_GDI_BUTTON" -> enumerate_gdi_fonts_calls(m)
      [] m.from = "IDC_DWRITE_BUTTON" -> enumerate_directwrite_fonts_calls(m)
      [] m.from = "IDC_FONTSET_BUTTON" -> enumerate_fontset_fonts_calls(m)
      [] m.from = "IDC_SEARCH_EDIT" /\ m.code = "EN_CHANGE" ->
             <<"borrow", "GetWindowTextW", "drop", "borrow_mut", "drop_mut">>
                 \o apply_filter_calls(m.rows)
      [] OTHER -> <<>>

\* wm_notify_calls taking the mutable borrow for every LVN_ITEMCHANGED,
\* before it looks at LVIS_SELECTED.
wm_notify_calls_borrows_first(m) ==
    IF m.from = "IDC_LISTVIEW" /\ m.code = "LVN_ITEMCHANGED"
    THEN <<"borrow_mut", "drop_mut">>
             \o (IF m.selected /\ m.outcome = "found"
                 THEN <<"CreateFontW", "WM_SETFONT", "SetWindowTextW(preview_static)">>
                 ELSE <<>>)
    ELSE <<>>

\* The WM_NOTIFY arm: for LVN_ITEMCHANGED of the list view with LVIS_SELECTED
\* in uNewState, the lookup under a mutable borrow, then (the borrow over) the
\* preview when the lookup found a named record.
wm_notify_calls(m) ==
    IF m.from = "IDC_LISTVIEW" /\ m.code = "LVN_ITEMCHANGED" /\ m.selected
    THEN <<"borrow_mut", "drop_mut">>
             \o (IF m.outcome = "found"
                 THEN <<"CreateFontW", "WM_SETFONT", "SetWindowTextW(preview_static)">>
                 ELSE <<>>)
    ELSE <<>>

\* wnd_proc: the calls of the arm that takes message m. WM_GETMINMAXINFO and
\* the messages left to DefWindowProcW touch neither the state nor a control.
wnd_proc_calls(m) ==
    CASE m.msg = "WM_SIZE" -> resize_controls_calls
      [] m.msg = "WM_COMMAND" -> wm_command_calls(m)
      [] m.msg = "WM_NOTIFY" -> wm_notify_calls(m)
      [] OTHER -> <<>>

\* The calls that act on the RefCell.
RefCellCalls == {"borrow", "borrow_mut", "drop", "drop_mut"}

\* What the user's actions and the system make the message loop of main hand
\* to wnd_proc: a click on a button (with the outcome of its mechanism and
\* the rows it will show), a change of the filter text, any other
\* notification of the filter edit, a row of the list getting or losing the
\* selection (the lookup finding a named record or not), a custom draw
\* notification of the list, a resize, a size query, a repaint.
QueuedMessages ==
    {Message("WM_COMMAND", "IDC_GDI_BUTTON", "BN_CLICKED", rows, "ok", FALSE) :
        rows \in 0..MaxRows}
    \cup {Message("WM_COMMAND", from, "BN_CLICKED", rows, "ok", FALSE) :
            from \in {"IDC_DWRITE_BUTTON", "IDC_FONTSET_BUTTON"}, rows \in 0..MaxRows}
    \cup {Message("WM_COMMAND", "IDC_DWRITE_BUTTON", "BN_CLICKED", 0, outcome, FALSE) :
            outcome \in {"no_factory", "no_source"}}
    \cup {Message("WM_COMMAND", "IDC_FONTSET_BUTTON", "BN_CLICKED", 0, outcome, FALSE) :
            outcome \in {"no_factory", "no_source"}}
    \cup {Message("WM_COMMAND", "IDC_SEARCH_EDIT", "EN_CHANGE", rows, "ok", FALSE) :
            rows \in 0..MaxRows}
    \cup {PlainMessage("WM_COMMAND", "IDC_SEARCH_EDIT", "EN_UPDATE")}
    \cup {Message("WM_NOTIFY", "IDC_LISTVIEW", "LVN_ITEMCHANGED", 0, outcome, selected) :
            outcome \in {"found", "not_found"}, selected \in BOOLEAN}
    \cup {PlainMessage("WM_NOTIFY", "IDC_LISTVIEW", "NM_CUSTOMDRAW"),
          PlainMessage("WM_SIZE", "hwnd", "SIZE_RESTORED"),
          PlainMessage("WM_GETMINMAXINFO", "hwnd", "none"),
          PlainMessage("WM_PAINT", "hwnd", "none")}

\* What the OS sends to wnd_proc, on this thread, before the call of that
\* name returns. The list view reports what a message did to its items: a
\* deletion, an insertion (the new item has no state: the LVITEMW carries
\* LVIF_TEXT | LVIF_PARAM only), a changed text (uNewState without
\* LVIS_SELECTED), and asks for custom draw when MoveWindow repaints it. A
\* control that sets its text asks the parent for its colours, and the preview
\* EDIT reports the update under its own identifier. MessageBoxW runs a
\* message loop while the box is up; its owner state.hwnd is disabled for
\* that time, so the buttons, the filter edit and the list get no input and
\* send no click, change or selection: the loop hands over resizes, size
\* queries and repaints, with the list's custom draw.
SentDuring(call) ==
    CASE call = "LVM_DELETEALLITEMS" ->
             {PlainMessage("WM_NOTIFY", "IDC_LISTVIEW", "LVN_DELETEALLITEMS"),
              Message("WM_NOTIFY", "IDC_LISTVIEW", "LVN_ITEMCHANGED", 0, "not_found", FALSE)}
      [] call = "LVM_INSERTITEMW" ->
             {PlainMessage("WM_NOTIFY", "IDC_LISTVIEW", "LVN_INSERTITEM")}
      [] call = "LVM_SETITEMTEXTW" ->
             {Message("WM_NOTIFY", "IDC_LISTVIEW", "LVN_ITEMCHANGED", 0, "found", FALSE)}
      [] call = "MoveWindow" ->
             {PlainMessage("WM_NOTIFY", "IDC_LISTVIEW", "NM_CUSTOMDRAW")}
      [] call = "SetWindowTextW(status_label)" ->
             {PlainMessage("WM_CTLCOLORSTATIC", "IDC_STATUS_LABEL", "none")}
      [] call \in {"WM_SETFONT", "SetWindowTextW(preview_static)"} ->
             {PlainMessage("WM_CTLCOLORSTATIC", "IDC_PREVIEW_STATIC", "none"),
              PlainMessage("WM_COMMAND", "IDC_PREVIEW_STATIC", "EN_UPDATE"),
              PlainMessage("WM_COMMAND", "IDC_PREVIEW_STATIC", "EN_CHANGE")}
      [] call = "MessageBoxW" ->
             {PlainMessage("WM_SIZE", "hwnd", "SIZE_RESTORED"),
              PlainMessage("WM_GETMINMAXINFO", "hwnd", "none"),
              PlainMessage("WM_PAINT", "hwnd", "none"),
              PlainMessage("WM_NOTIFY", "IDC_LISTVIEW", "NM_CUSTOMDRAW")}
      [] OTHER -> {}

\* An activation of wnd_proc for message m, at its first call.
Activation(m) == [message |-> m, calls |-> wnd_proc_calls(m)]

\* The innermost activation, and the stack with that activation past its
\* next call.
Innermost == call_stack[Len(call_stack)]

NextCall == Head(Innermost.calls)

Advanced ==
    [call_stack EXCEPT ![Len(call_stack)].calls = Tail(@)]

Running == ~borrow_panic /\ call_stack # <<>> /\ Innermost.calls # <<>>

\* The message loop of main: GetMessageW, DispatchMessageW, with no
\* activation left from the message before.
DispatchMessageW ==
    /\ ~borrow_panic
    /\ call_stack = <<>>
    /\ \E m \in QueuedMessages : call_stack' = <<Activation(m)>>
    /\ UNCHANGED <<borrow_state, borrow_panic>>
    /\ UNCHANGED session_vars

\* RefCell::borrow: panics while a mutable borrow is live.
RefCellBorrow ==
    /\ Running
    /\ NextCall = "borrow"
    /\ IF borrow_state >= 0
       THEN /\ borrow_state' = borrow_state + 1
            /\ call_stack' = Advanced
            /\ UNCHANGED borrow_panic
       ELSE /\ borrow_panic' = TRUE
            /\ UNCHANGED <<borrow_state, call_stack>>
    /\ UNCHANGED session_vars

\* RefCell::borrow_mut: panics while any borrow is live.
RefCellBorrowMut ==
    /\ Running
    /\ NextCall = "borrow_mut"
    /\ IF borrow_state = 0
       THEN /\ borrow_state' = -1
            /\ call_stack' = Advanced
            /\ UNCHANGED borrow_panic
       ELSE /\ borrow_panic' = TRUE
            /\ UNCHANGED <<borrow_state, call_stack>>
    /\ UNCHANGED session_vars

\* The Ref or RefMut goes out of scope.
RefDrop ==
    /\ Running
    /\ NextCall \in {"drop", "drop_mut"}
    /\ borrow_state' = IF NextCall = "drop" THEN borrow_state - 1 ELSE 0
    /\ call_stack' = Advanced
    /\ UNCHANGED borrow_panic
    /\ UNCHANGED session_vars

\* The OS, inside a call, sends a message to wnd_proc: a nested activation.
SendMessageW ==
    /\ Running
    /\ NextCall \notin RefCellCalls
    /\ \E m \in SentDuring(NextCall) : call_stack' = Append(call_stack, Activation(m))
    /\ UNCHANGED <<borrow_state, borrow_panic>>
    /\ UNCHANGED session_vars

\* The OS call returns to the handler.
CallReturns ==
    /\ Running
    /\ NextCall \notin RefCellCalls
    /\ call_stack' = Advanced
    /\ UNCHANGED <<borrow_state, borrow_panic>>
    /\ UNCHANGED session_vars

\* wnd_proc returns: to the OS call that sent the message, or to the loop.
WndProcReturns ==
    /\ ~borrow_panic
    /\ call_stack # <<>>
    /\ Innermost.calls = <<>>
    /\ call_stack' = SubSeq(call_stack, 1, Len(call_stack) - 1)
    /\ UNCHANGED <<borrow_state, borrow_panic>>
    /\ UNCHANGED session_vars

ReentryNext ==
    \/ DispatchMessageW
    \/ RefCellBorrow
    \/ RefCellBorrowMut
    \/ RefDrop
    \/ SendMessageW
    \/ CallReturns
    \/ WndProcReturns

ReentrySpec == Init /\ [][ReentryNext]_vars

-----------------------------------------------------------------------------
(* Properties *)

\* needle occurs in hay at some offset.
IsSubstring(needle, hay) ==
    \E off \in 0..Len(hay) :
        /\ off + Len(needle) <= Len(hay)
        /\ \A k \in 1..Len(needle) : hay[off + k] = needle[k]

\* The indices of the records of fs that the query ft admits.
VisibleSet(fs, ft) ==
    {k \in 0..(Len(fs) - 1) :
        \/ ft = <<>>
        \/ IsSubstring(to_lowercase(ft), to_lowercase(fs[k + 1].family_name))
        \/ IsSubstring(to_lowercase(ft), to_lowercase(fs[k + 1].style_name))}

Entries(seq) == {seq[j] : j \in 1..Len(seq)}

StrictlyIncreasing(seq) ==
    \A i, j \in 1..Len(seq) : i < j => seq[i] < seq[j]

AdapterKinds == {"IDC_GDI_BUTTON", "IDC_DWRITE_BUTTON", "IDC_FONTSET_BUTTON"}

\* The last event was a selection (LVIS_SELECTED set) of row last_event.input[1].
SelectionEvent(ev) == ev.kind = "LVN_ITEMCHANGED" /\ ev.input[2]

\* The adapter trigger ev got its OS mechanism and ran to the end.
SuccessfulTrigger(ev) ==
    \/ ev.kind = "IDC_GDI_BUTTON" /\ ev.input.ret # 0
    \/ ev.kind = "IDC_DWRITE_BUTTON" /\ ev.input.factory /\ ev.input.collection = "ok"
    \/ ev.kind = "IDC_FONTSET_BUTTON" /\ ev.input.factory /\ ev.input.font_set

\* The adapter trigger ev could not initialize its OS mechanism, or the
\* mechanism failed.
FailedTrigger(ev) == ev.kind \in AdapterKinds /\ ~SuccessfulTrigger(ev)

NamePair(f) == <<f.family_name, f.style_name>>

NoDuplicatePairs(fs) ==
    \A i, j \in 1..Len(fs) : i < j => NamePair(fs[i]) # NamePair(fs[j])

\* C1: after any sequence of triggers, filter changes and selections,
\* filtered_indices holds exactly the indices of the records of fonts whose
\* lowercased family or style name contains the lowercased filter_text
\* (every index when filter_text is empty): none missing, none extra.
C1_VisibleIndicesExact ==
    Entries(filtered_indices) = VisibleSet(fonts, filter_text)

\* A non-empty query that admits one record only through case folding and
\* rejects another.
C1_Witness ==
    /\ filter_text # <<>>
    /\ VisibleSet(fonts, filter_text) # 0..(Len(fonts) - 1)
    /\ \E k \in VisibleSet(fonts, filter_text) :
           /\ ~IsSubstring(filter_text, fonts[k + 1].family_name)
           /\ ~IsSubstring(filter_text, fonts[k + 1].style_name)

\* C2: in every state, filtered_indices is strictly increasing with every
\* entry in 0..|fonts|-1, and it is the full range 0..|fonts|-1 when
\* filter_text is empty.
C2_VisibleIndicesOrdered ==
    /\ StrictlyIncreasing(filtered_indices)
    /\ \A j \in 1..Len(filtered_indices) :
           filtered_indices[j] >= 0 /\ filtered_indices[j] < Len(fonts)
    /\ filter_text = <<>> => filtered_indices = [k \in 1..Len(fonts) |-> k - 1]

\* A query that passes two or more records, but not all of them.
C2_Witness ==
    /\ filter_text # <<>>
    /\ Len(filtered_indices) >= 2
    /\ Len(filtered_indices) < Len(fonts)

\* C3: a selection of row i < |filtered_indices| resolves to the record
\* fonts[filtered_indices[i]], sets selected_font to its family name and
\* renders the preview from its family, weight, italic flag and style name.
C3_SelectionRendersRecord ==
    (SelectionEvent(last_event) /\ VecHas(filtered_indices, last_event.input[1])) =>
        LET font == fonts[filtered_indices[last_event.input[1] + 1] + 1]
        IN  /\ selected_font = font.family_name
            /\ preview.font = [face |-> font.family_name, weight |-> font.weight,
                               italic |-> IF font.italic THEN 1 ELSE 0]
            /\ preview.text =
                   font.family_name \o <<" ">> \o font.style_name \o PreviewSampleText

\* Row i is a position of filtered_indices that maps into fonts.
ValidRow(i) == VecHas(filtered_indices, i) /\ filtered_indices[i + 1] < Len(fonts)

\* C4: a selection of a row that is no valid position of filtered_indices
\* (negative, or at or past its end, or mapping past the end of fonts) changes
\* nothing: fonts, filtered_indices, filter_text, current_mode, selected_font,
\* the table, the status and the preview stay, and no error box is shown.
C4_StaleSelectionIsNoOp ==
    [][(SelectionEvent(last_event') /\ ~ValidRow(last_event'.input[1])) =>
           /\ UNCHANGED <<fonts, filtered_indices, filter_text, current_mode,
                          selected_font, list_view, status_label, preview>>
           /\ ~message_box']_vars

\* A selection past the end of a non-empty table, with a family selected and
\* previewed before it.
C4_Witness ==
    /\ SelectionEvent(last_event)
    /\ ~ValidRow(last_event.input[1])
    /\ Len(filtered_indices) > 0
    /\ selected_font # <<>>
    /\ preview.text # PreviewInitialText

\* C5: for each of the three adapters, a trigger whose OS mechanism cannot be
\* initialized or fails leaves fonts exactly as it was.
C5_FailedTriggerKeepsRecords ==
    [][FailedTrigger(last_event') => fonts' = fonts]_vars

\* C6: every DirectWrite or FontSet trigger that aborts because its OS
\* mechanism could not be initialized shows the error box before it returns.
C6_InitFailureNotifies ==
    (last_event.kind \in {"IDC_DWRITE_BUTTON", "IDC_FONTSET_BUTTON"}
        /\ FailedTrigger(last_event)) => message_box

\* What the adapter of trigger ev makes of the OS's answers.
AdapterOutput(ev) ==
    CASE ev.kind = "IDC_GDI_BUTTON" -> gdi_fonts(ev.input)
      [] ev.kind = "IDC_DWRITE_BUTTON" -> directwrite_fonts(ev.input)
      [] ev.kind = "IDC_FONTSET_BUTTON" -> fontset_fonts(ev.input)

AdapterMode(ev) ==
    CASE ev.kind = "IDC_GDI_BUTTON" -> "Gdi"
      [] ev.kind = "IDC_DWRITE_BUTTON" -> "DirectWrite"
      [] ev.kind = "IDC_FONTSET_BUTTON" -> "FontSet"

\* C7: after every successful adapter trigger, fonts is the adapter's output
\* and nothing else, current_mode is that adapter, selected_font is empty,
\* filtered_indices is the filter of the new fonts under filter_text, and the
\* table shows the rows of those indices.
C7_SuccessfulTriggerCommits ==
    SuccessfulTrigger(last_event) =>
        /\ fonts = AdapterOutput(last_event)
        /\ current_mode = AdapterMode(last_event)
        /\ selected_font = <<>>
        /\ StrictlyIncreasing(filtered_indices)
        /\ Entries(filtered_indices) = VisibleSet(fonts, filter_text)
        /\ Len(list_view) = Len(filtered_indices)
        /\ \A i \in 1..Len(list_view) :
               /\ list_view[i].lParam = filtered_indices[i]
               /\ list_view[i].text[1] = fonts[filtered_indices[i] + 1].family_name
               /\ list_view[i].text[2] = fonts[filtered_indices[i] + 1].style_name

\* A successful trigger after an earlier selection, under a query that passes
\* some of the new records and not others.
C7_Witness ==
    /\ SuccessfulTrigger(last_event)
    /\ preview.text # PreviewInitialText
    /\ filter_text # <<>>
    /\ Len(filtered_indices) >= 1
    /\ Len(filtered_indices) < Len(fonts)

\* The (family, style) pair of a face as the callback reads it.
FacePair(lf) ==
    <<trim_end_matches_nul(lf.lfFaceName), trim_end_matches_nul(lf.elfStyle)>>

\* The first face of faces that carries pair.
FirstFace(faces, pair) ==
    faces[CHOOSE k \in 1..Len(faces) :
              /\ FacePair(faces[k]) = pair
              /\ \A j \in 1..(k - 1) : FacePair(faces[j]) # pair]

\* C8: whatever sequence of faces the OS reports, the GDI adapter's output has
\* no two records with the same (family_name, style_name), has a record for
\* every reported pair, and each record carries the attributes of the first
\* face reported with its pair.
C8_GdiOutputDeduplicated ==
    last_event.kind = "IDC_GDI_BUTTON" =>
        LET faces == last_event.input.faces
        IN  /\ NoDuplicatePairs(fonts)
            /\ {NamePair(fonts[i]) : i \in 1..Len(fonts)}
                   = {FacePair(faces[k]) : k \in 1..Len(faces)}
            /\ \A i \in 1..Len(fonts) :
                   LET first == FirstFace(faces, NamePair(fonts[i]))
                   IN  /\ fonts[i].weight = first.lfWeight
                       /\ fonts[i].italic = (first.lfItalic # 0)
                       /\ fonts[i].fixed_pitch = ((first.lfPitchAndFamily % 4) = 1)

\* The OS reported one pair twice, with different weights.
C8_Witness ==
    /\ last_event.kind = "IDC_GDI_BUTTON"
    /\ Len(fonts) >= 1
    /\ \E j, k \in 1..Len(last_event.input.faces) :
           /\ j < k
           /\ FacePair(last_event.input.faces[j]) = FacePair(last_event.input.faces[k])
           /\ last_event.input.faces[j].lfWeight # last_event.input.faces[k].lfWeight

\* C9: after a successful enumeration by any of the three adapters, fonts
\* holds no two records with the same (family_name, style_name).
C9_NoDuplicatePairs ==
    SuccessfulTrigger(last_event) => NoDuplicatePairs(fonts)

\* The family name the FontSet adapter resolves for slot i (0-based) of os.
ResolvedFamily(os, i) ==
    LET list == os.props.FAMILY_NAME
    IN  IF list.ok /\ i < Len(list.values) /\ list.values[i + 1].get_ok
        THEN list.values[i + 1].string
        ELSE <<>>

\* C10: the FontSet adapter commits no record with an empty family_name: a
\* slot whose resolved family name is empty is dropped, every other slot
\* yields one record, and fonts stays free of empty family names for as long
\* as current_mode is FontSet.
C10_FontSetDropsEmptyFamilies ==
    /\ current_mode = "FontSet" =>
           \A k \in 1..Len(fonts) : fonts[k].family_name # <<>>
    /\ (last_event.kind = "IDC_FONTSET_BUTTON" /\ SuccessfulTrigger(last_event)) =>
           LET os == last_event.input
               slots == 0..(Len(os.refs) - 1)
           IN  \A i \in slots :
                   LET name == ResolvedFamily(os, i)
                   IN  name # <<>> =>
                           Cardinality({k \in 1..Len(fonts) : fonts[k].family_name = name})
                               = Cardinality({j \in slots : ResolvedFamily(os, j) = name})

\* A set with a slot that is dropped and a slot that is kept.
C10_Witness ==
    /\ last_event.kind = "IDC_FONTSET_BUTTON"
    /\ SuccessfulTrigger(last_event)
    /\ Len(fonts) >= 1
    /\ Len(fonts) < Len(last_event.input.refs)

\* C11: in every state, every record of fonts, whichever adapter produced it,
\* has is_variable true exactly when its variable_axes text is non-empty.
C11_VariableIffAxes ==
    \A k \in 1..Len(fonts) :
        fonts[k].is_variable <=> (fonts[k].variable_axes # <<>>)

\* A FontSet enumeration that kept a variable face and a face whose axes all
\* have equal ends.
C11_Witness ==
    /\ current_mode = "FontSet"
    /\ \E k \in 1..Len(fonts) : fonts[k].is_variable
    /\ \E k \in 1..Len(fonts) : ~fonts[k].is_variable
    /\ last_event.kind = "IDC_FONTSET_BUTTON"
    /\ \E j \in 1..Len(last_event.input.refs) :
           LET ref == last_event.input.refs[j]
           IN  /\ ref.get_ok /\ ref.axis_stage = "ok" /\ Len(ref.ranges) > 0
               /\ \A r \in 1..Len(ref.ranges) :
                      ref.ranges[r].minValue = ref.ranges[r].maxValue

\* a sorts strictly before b in ordinal (code unit by code unit) order.
OrdinalLess(a, b) ==
    \E k \in 1..(Min(Len(a), Len(b)) + 1) :
        /\ \A j \in 1..(k - 1) : a[j] = b[j]
        /\ IF k > Len(a) THEN k <= Len(b)
           ELSE k <= Len(b) /\ CharCode(a[k]) < CharCode(b[k])

\* C12: fonts is sorted by ordinal string comparison: non-decreasing by
\* family_name while current_mode is Gdi, and non-decreasing by the pair
\* (family_name, style_name) while current_mode is DirectWrite or FontSet; the
\* order holds from the enumeration until the next one.
C12_RecordsSorted ==
    /\ current_mode = "Gdi" =>
           \A i, j \in 1..Len(fonts) :
               i < j => ~OrdinalLess(fonts[j].family_name, fonts[i].family_name)
    /\ current_mode \in {"DirectWrite", "FontSet"} =>
           \A i, j \in 1..Len(fonts) :
               i < j =>
                   \/ OrdinalLess(fonts[i].family_name, fonts[j].family_name)
                   \/ /\ fonts[i].family_name = fonts[j].family_name
                      /\ ~OrdinalLess(fonts[j].style_name, fonts[i].style_name)

\* A DirectWrite enumeration whose collection was out of order, with two
\* records of one family that differ in style.
C12_Witness ==
    /\ last_event.kind = "IDC_DWRITE_BUTTON"
    /\ SuccessfulTrigger(last_event)
    /\ fonts # dwrite_collection_fonts(<<>>, last_event.input.families)
    /\ \E i, j \in 1..Len(fonts) :
           /\ fonts[i].family_name = fonts[j].family_name
           /\ fonts[i].style_name # fonts[j].style_name

\* The decimal digits of a natural number, and of an integer.
RECURSIVE Decimal(_)
Decimal(n) ==
    LET digit == <<"0", "1", "2", "3", "4", "5", "6", "7", "8", "9">>[(n % 10) + 1]
    IN  IF n < 10 THEN <<digit>> ELSE Decimal(n \div 10) \o <<digit>>

SignedDecimal(n) == IF n < 0 THEN <<"-">> \o Decimal(0 - n) ELSE Decimal(n)

SourceLabel ==
    CASE current_mode = "Gdi" -> <<"G", "D", "I">>
      [] current_mode = "DirectWrite" ->
             <<"D", "i", "r", "e", "c", "t", "W", "r", "i", "t", "e">>
      [] current_mode = "FontSet" -> <<"F", "o", "n", "t", "S", "e", "t">>
      [] current_mode = "None" -> <<"N", "o">>

\* The status text of the current state.
ExpectedStatus ==
    LET enumeration == <<" ", "E", "n", "u", "m", "e", "r", "a", "t", "i", "o", "n", ":", " ">>
        fonts_word == <<" ", "f", "o", "n", "t", "s">>
    IN  IF filter_text = <<>>
        THEN SourceLabel \o enumeration \o <<"F", "o", "u", "n", "d", " ">>
                 \o Decimal(Len(fonts)) \o fonts_word
        ELSE SourceLabel \o enumeration \o <<"S", "h", "o", "w", "i", "n", "g", " ">>
                 \o Decimal(Len(filtered_indices)) \o <<" ", "o", "f", " ">>
                 \o Decimal(Len(fonts)) \o fonts_word

\* C13: after every successful enumeration and every filter change, the
\* status label reads "<Label> Enumeration: Found <N> fonts" when filter_text
\* is empty and "<Label> Enumeration: Showing <M> of <N> fonts" otherwise,
\* with N = |fonts|, M = |filtered_indices| and Label GDI, DirectWrite,
\* FontSet or No for current_mode Gdi, DirectWrite, FontSet or None.
C13_StatusText ==
    (last_event.kind = "EN_CHANGE" \/ SuccessfulTrigger(last_event)) =>
        status_label = ExpectedStatus

\* A filter change after an enumeration, to a query that passes some records
\* and not others.
C13_Witness ==
    /\ last_event.kind = "EN_CHANGE"
    /\ current_mode # "None"
    /\ filter_text # <<>>
    /\ Len(filtered_indices) >= 1
    /\ Len(filtered_indices) < Len(fonts)

\* The seven column texts of the row of record f.
ExpectedColumns(f) ==
    <<f.family_name,
      f.style_name,
      SignedDecimal(f.weight),
      IF f.italic THEN <<"Y", "e", "s">> ELSE <<"N", "o">>,
      IF f.fixed_pitch THEN <<"Y", "e", "s">> ELSE <<"N", "o">>,
      f.file_path,
      IF f.is_variable THEN <<"Y", "e", "s", ":", " ">> \o f.variable_axes ELSE <<>> >>

\* C14: in every state, the table has exactly |filtered_indices| rows, and
\* row i carries the index filtered_indices[i] and shows the columns of the
\* record fonts[filtered_indices[i]]: never a row of an earlier fonts or an
\* earlier filter result.
C14_TableShowsVisibleRecords ==
    /\ Len(list_view) = Len(filtered_indices)
    /\ \A i \in 1..Len(list_view) :
           /\ list_view[i].lParam = filtered_indices[i]
           /\ filtered_indices[i] \in 0..(Len(fonts) - 1)
           /\ list_view[i].text = ExpectedColumns(fonts[filtered_indices[i] + 1])

\* A table narrowed by a query to fewer rows than records, its first row not
\* the first record.
C14_Witness ==
    /\ filter_text # <<>>
    /\ Len(list_view) >= 1
    /\ Len(list_view) < Len(fonts)
    /\ list_view[1].lParam > 0

\* C15: a filter change leaves fonts, current_mode and selected_font as they
\* were; it writes filter_text and filtered_indices only (and redraws the
\* table and the status from them).
C15_FilterChangeFrame ==
    [][last_event'.kind = "EN_CHANGE" =>
           UNCHANGED <<fonts, current_mode, selected_font>>]_vars

\* A filter change that narrowed the visible records while a family was
\* selected.
C15_Witness ==
    /\ last_event.kind = "EN_CHANGE"
    /\ selected_font # <<>>
    /\ Len(filtered_indices) < Len(fonts)

\* C16: clicking the same adapter button a second time in a row, the OS
\* giving the same answers, leaves fonts, filtered_indices, filter_text,
\* current_mode and selected_font as the first click left them.
C16_EnumerationIdempotent ==
    [][(last_event'.kind \in AdapterKinds /\ last_event'.again) =>
           UNCHANGED <<fonts, filtered_indices, filter_text, current_mode,
                       selected_font>>]_vars

\* A second successful click in a row, with records and a query that passes
\* only some of them.
C16_Witness ==
    /\ last_event.again
    /\ SuccessfulTrigger(last_event)
    /\ filter_text # <<>>
    /\ Len(filtered_indices) >= 1
    /\ Len(filtered_indices) < Len(fonts)

\* The weight and the italic flag the FontSet adapter is to give slot i
\* (0-based) of os: the parsed property value, or 400 and non-italic when the
\* value is missing, cannot be retrieved or does not parse.
ExpectedWeight(os, i) ==
    LET list == os.props.WEIGHT
    IN  IF list.ok /\ i < Len(list.values) /\ list.values[i + 1].get_ok
            /\ parse_i32(list.values[i + 1].string).ok
        THEN parse_i32(list.values[i + 1].string).value
        ELSE 400

ExpectedItalic(os, i) ==
    LET list == os.props.STYLE
    IN  IF list.ok /\ i < Len(list.values) /\ list.values[i + 1].get_ok
            /\ parse_i32(list.values[i + 1].string).ok
        THEN parse_i32(list.values[i + 1].string).value # 0
        ELSE FALSE

\* The slots of os whose resolved family name is not empty.
KeptSlots(os) == {i \in 0..(Len(os.refs) - 1) : ResolvedFamily(os, i) # <<>>}

\* C17: after a successful FontSet enumeration there is one record per slot
\* with a non-empty family name, and each record has the weight and italic
\* flag of such a slot: the parsed values, or weight 400 and non-italic when
\* the slot's weight or style cannot be resolved.
C17_UnresolvedDefaults ==
    (last_event.kind = "IDC_FONTSET_BUTTON" /\ SuccessfulTrigger(last_event)) =>
        LET os == last_event.input
        IN  /\ Len(fonts) = Cardinality(KeptSlots(os))
            /\ \A k \in 1..Len(fonts) :
                   \E i \in KeptSlots(os) :
                       /\ fonts[k].family_name = ResolvedFamily(os, i)
                       /\ fonts[k].weight = ExpectedWeight(os, i)
                       /\ fonts[k].italic = ExpectedItalic(os, i)

\* The four characters of an axis tag, first character in the low byte.
TagText(tag) ==
    [n \in 1..4 |->
        CHOOSE c \in Chars : CharCode(c) = (tag \div (256 ^ (n - 1))) % 256]

\* The axes a slot reports, those of them whose ends differ, and the text
\* "<tag> <min>-<max>" of each of these joined by ", " (the ends as integers,
\* fractions cut off).
ReportedAxes(ref) ==
    IF ref.get_ok /\ ref.axis_stage = "ok" THEN ref.ranges ELSE <<>>

VaryingAxes(ref) ==
    SelectSeq(ReportedAxes(ref), LAMBDA r : r.minValue # r.maxValue)

AxisFragment(r) ==
    TagText(r.axisTag) \o <<" ">> \o SignedDecimal(as_i32(r.minValue)) \o <<"-">>
        \o SignedDecimal(as_i32(r.maxValue))

RECURSIVE JoinedFragments(_)
JoinedFragments(axes) ==
    IF axes = <<>> THEN <<>>
    ELSE IF Len(axes) = 1 THEN AxisFragment(axes[1])
    ELSE AxisFragment(Head(axes)) \o <<",", " ">> \o JoinedFragments(Tail(axes))

\* Record f is what slot i of os is to give for its axes.
AxesOfSlot(f, os, i) ==
    /\ f.family_name = ResolvedFamily(os, i)
    /\ f.variable_axes = JoinedFragments(VaryingAxes(os.refs[i + 1]))
    /\ f.is_variable = (VaryingAxes(os.refs[i + 1]) # <<>>)

\* C18: after a successful FontSet enumeration, variable_axes of every record
\* is one "<tag> <min>-<max>" fragment per reported axis whose minimum differs
\* from its maximum, in the reported order and joined by ", "; axes with equal
\* ends contribute nothing; is_variable is true iff some axis has differing
\* ends. Every kept slot has such a record.
C18_VariableAxesText ==
    (last_event.kind = "IDC_FONTSET_BUTTON" /\ SuccessfulTrigger(last_event)) =>
        LET os == last_event.input
        IN  /\ \A k \in 1..Len(fonts) :
                   \E i \in KeptSlots(os) : AxesOfSlot(fonts[k], os, i)
            /\ \A i \in KeptSlots(os) :
                   \E k \in 1..Len(fonts) : AxesOfSlot(fonts[k], os, i)

\* A kept face with two varying axes around one with equal ends, one end
\* negative and fractional, next to a kept face whose only axis has equal ends.
C18_Witness ==
    /\ last_event.kind = "IDC_FONTSET_BUTTON"
    /\ SuccessfulTrigger(last_event)
    /\ \E i \in KeptSlots(last_event.input) :
           LET ref == last_event.input.refs[i + 1]
           IN  /\ Len(VaryingAxes(ref)) >= 2
               /\ Len(VaryingAxes(ref)) < Len(ReportedAxes(ref))
               /\ \E r \in 1..Len(ref.ranges) : ref.ranges[r].minValue % AxisUnit # 0
    /\ \E i \in KeptSlots(last_event.input) :
           LET ref == last_event.input.refs[i + 1]
           IN  ReportedAxes(ref) # <<>> /\ VaryingAxes(ref) = <<>>
    /\ \E k \in 1..Len(fonts) : fonts[k].is_variable
    /\ \E k \in 1..Len(fonts) : ~fonts[k].is_variable

C20_PreviewAgreesWithSelection ==
    preview.text # PreviewInitialText => preview.font.face = selected_font

\* C21: under every nesting of wnd_proc activations on the UI thread (list
\* notifications sent while populate_list_view clears and fills the table,
\* messages handed over while the error box is up, notifications raised
\* while the preview font and text are set), no borrow_mut() runs while
\* another borrow of APP_STATE is live and no borrow() while a mutable one
\* is: the RefCell never panics, and a mutable borrow is never shared.
C21_NoConflictingBorrow ==
    /\ ~borrow_panic
    /\ borrow_state >= -1
    /\ borrow_state = -1 =>
           /\ call_stack # <<>>
           /\ Innermost.calls # <<>>
           /\ NextCall = "drop_mut"

\* The list view reports a changed item to wnd_proc while populate_list_view
\* is setting a subitem text under its shared borrow.
C21_Witness ==
    /\ Len(call_stack) = 2
    /\ borrow_state = 1
    /\ call_stack[1].calls # <<>>
    /\ Head(call_stack[1].calls) = "LVM_SETITEMTEXTW"
    /\ call_stack[2].message.msg = "WM_NOTIFY"
    /\ call_stack[2].message.from = "IDC_LISTVIEW"
    /\ call_stack[2].message.code = "LVN_ITEMCHANGED"

====
